---- MODULE Spec2Model ----
(***************************************************************************)
(* Model of the SerpAPI adapter servers: cache-key construction, the       *)
(* in-memory cache, the upstream call and the response normalizer          *)
(* (raw / clean / readable), for the nine adapters of the repository.      *)
(***************************************************************************)
EXTENDS Integers, Sequences, FiniteSets, TLC

VARIABLES
    adapter,   \* which adapter server this process is
    api_key,   \* self.api_key
    cache,     \* self.cache: cache key -> [response, timestamp, origin]
    now,       \* asyncio.get_event_loop().time()
    tasks,     \* the tool calls in flight, suspended at the upstream await
    calls,     \* number of upstream calls issued so far
    last,      \* what the most recently finished call handed to its caller
    probe      \* inputs and outputs of the pure functions under study

vars == <<adapter, api_key, cache, now, tasks, calls, last, probe>>

(***************************************************************************)
(* JSON values.  A map is a sequence of <<key, value>> pairs in insertion  *)
(* order, as a Python dict keeps it.                                       *)
(***************************************************************************)
JNull == [t |-> "null"]
JStr(s) == [t |-> "str", v |-> s]
JNum(n) == [t |-> "num", v |-> n]
JBool(b) == [t |-> "bool", v |-> b]
JList(s) == [t |-> "list", v |-> s]
JMap(s) == [t |-> "map", v |-> s]

IsMap(d) == d.t = "map"
IsList(d) == d.t = "list"
IsStr(d) == d.t = "str"

\* "k in d" for a dict d
HasKey(d, k) == IsMap(d) /\ \E i \in 1..Len(d.v) : d.v[i][1] = k

\* d[k] for a dict d that has k
Get(d, k) == d.v[CHOOSE i \in 1..Len(d.v) : d.v[i][1] = k][2]

\* a filter that forgets the empty string: "v is not None and v != [] and
\* v != {}"
NotEmpty_without_str(x) ==
    /\ x.t # "null"
    /\ ~(x.t = "list" /\ x.v = <<>>)
    /\ ~(x.t = "map" /\ x.v = <<>>)

\* Python's "v is not None and v != '' and v != [] and v != {}"
NotEmpty(x) ==
    /\ x.t # "null"
    /\ ~(x.t = "str" /\ x.v = "")
    /\ ~(x.t = "list" /\ x.v = <<>>)
    /\ ~(x.t = "map" /\ x.v = <<>>)

\* Python's "v is not None and (not isinstance(v, (dict, list)) or v)"
NotNoneNorEmptyCollection(x) ==
    /\ x.t # "null"
    /\ (x.t \in {"list", "map"} => x.v # <<>>)

NotNone(x) == x.t # "null"

(***************************************************************************)
(* clean_json_dict, as each adapter defines it.  In all of them the        *)
(* filter looks at the value before it is cleaned.                         *)
(***************************************************************************)
\* Finance, Maps, News: lists drop only None
RECURSIVE clean_json_dict_finance(_)
clean_json_dict_finance(d) ==
    IF d.t = "null" THEN JNull
    ELSE IF d.t = "map" THEN
        LET kept == SelectSeq(d.v, LAMBDA p : NotEmpty(p[2]))
        IN  JMap([i \in 1..Len(kept) |->
                    <<kept[i][1], clean_json_dict_finance(kept[i][2])>>])
    ELSE IF d.t = "list" THEN
        LET kept == SelectSeq(d.v, NotNone)
        IN  JList([i \in 1..Len(kept) |-> clean_json_dict_finance(kept[i])])
    ELSE d

\* Images, Google Search, Trends: a list that cleans to [] becomes None
RECURSIVE clean_json_dict_images(_)
clean_json_dict_images(data) ==
    IF data.t = "map" THEN
        LET kept == SelectSeq(data.v, LAMBDA p : NotEmpty(p[2]))
        IN  JMap([i \in 1..Len(kept) |->
                    <<kept[i][1], clean_json_dict_images(kept[i][2])>>])
    ELSE IF data.t = "list" THEN
        LET kept == SelectSeq(data.v, NotEmpty)
            cleaned_list == [i \in 1..Len(kept) |-> clean_json_dict_images(kept[i])]
        IN  IF cleaned_list # <<>> THEN JList(cleaned_list) ELSE JNull
    ELSE data

\* Scholar: empty strings are kept
RECURSIVE clean_json_dict_scholar(_)
clean_json_dict_scholar(data) ==
    IF data.t = "map" THEN
        LET kept == SelectSeq(data.v, LAMBDA p : NotNoneNorEmptyCollection(p[2]))
        IN  JMap([i \in 1..Len(kept) |->
                    <<kept[i][1], clean_json_dict_scholar(kept[i][2])>>])
    ELSE IF data.t = "list" THEN
        LET kept == SelectSeq(data.v, NotNoneNorEmptyCollection)
        IN  JList([i \in 1..Len(kept) |-> clean_json_dict_scholar(kept[i])])
    ELSE data

\* YouTube search, YouTube transcript
RECURSIVE clean_json_dict_youtube(_)
clean_json_dict_youtube(data) ==
    IF data.t = "map" THEN
        LET kept == SelectSeq(data.v, LAMBDA p : NotEmpty(p[2]))
        IN  JMap([i \in 1..Len(kept) |->
                    <<kept[i][1], clean_json_dict_youtube(kept[i][2])>>])
    ELSE IF data.t = "list" THEN
        LET kept == SelectSeq(data.v, NotEmpty)
        IN  JList([i \in 1..Len(kept) |-> clean_json_dict_youtube(kept[i])])
    ELSE data

Adapters ==
    {"finance", "maps", "news", "images", "trends", "youtube",
     "search", "scholar", "transcript"}

\* the clean_json_dict of adapter ad's module
clean_json_dict(ad, d) ==
    CASE ad \in {"finance", "maps", "news"} -> clean_json_dict_finance(d)
      [] ad \in {"images", "search", "trends"} -> clean_json_dict_images(d)
      [] ad = "scholar" -> clean_json_dict_scholar(d)
      [] ad \in {"youtube", "transcript"} -> clean_json_dict_youtube(d)

(***************************************************************************)
(* Tool arguments.  An argument value is a tagged value as above, so that  *)
(* None, "", 0 and False stay distinct.                                    *)
(***************************************************************************)
None == JNull

\* Python truthiness ("if args.hl:")
Truthy(x) ==
    CASE x.t = "null" -> FALSE
      [] x.t = "str" -> x.v # ""
      [] x.t = "num" -> x.v # 0
      [] x.t = "bool" -> x.v
      [] x.t \in {"list", "map"} -> x.v # <<>>

\* how an f-string renders a value: f"{x}"
Str(x) ==
    CASE x.t = "null" -> "None"
      [] x.t = "str" -> x.v
      [] x.t = "num" -> ToString(x.v)
      [] x.t = "bool" -> IF x.v THEN "True" ELSE "False"

\* sep.join(parts)
RECURSIVE Join(_, _)
Join(parts, sep) ==
    IF parts = <<>> THEN ""
    ELSE IF Len(parts) = 1 THEN parts[1]
    ELSE parts[1] \o sep \o Join(Tail(parts), sep)

\* whether the code adds a parameter: unconditionally, "if args.x:",
\* or "if args.x is not None:"
Passes(guard, x) ==
    CASE guard = "always" -> TRUE
      [] guard = "truthy" -> Truthy(x)
      [] guard = "notnone" -> x.t # "null"

\* The parameters each search method reads, in the order of its code, each
\* with its guard.  The same guards build the cache key and the upstream
\* query.
Params_finance ==
    << <<"q", "always">>, <<"hl", "truthy">>, <<"window", "truthy">> >>

Params_maps ==
    << <<"q", "truthy">>, <<"type", "truthy">>, <<"data", "truthy">>,
       <<"place_id", "truthy">>, <<"ll", "truthy">>,
       <<"google_domain", "truthy">>, <<"hl", "truthy">>, <<"gl", "truthy">>,
       <<"start", "notnone">> >>

Params_news ==
    << <<"q", "truthy">>, <<"gl", "truthy">>, <<"hl", "truthy">>,
       <<"publication_token", "truthy">>, <<"topic_token", "truthy">>,
       <<"story_token", "truthy">>, <<"section_token", "truthy">>,
       <<"so", "truthy">> >>

Params_images ==
    << <<"q", "always">>, <<"location", "truthy">>, <<"uule", "truthy">>,
       <<"google_domain", "truthy">>, <<"gl", "truthy">>, <<"hl", "truthy">>,
       <<"cr", "truthy">>, <<"device", "truthy">>, <<"ijn", "notnone">>,
       <<"chips", "truthy">>, <<"tbs", "truthy">>, <<"imgar", "truthy">>,
       <<"imgsz", "truthy">>, <<"image_color", "truthy">>,
       <<"image_type", "truthy">>, <<"licenses", "truthy">>,
       <<"safe", "truthy">>, <<"nfpr", "truthy">>, <<"filter", "truthy">>,
       <<"time_period", "truthy">> >>

Params_trends ==
    << <<"q", "always">>, <<"geo", "truthy">>, <<"date", "truthy">>,
       <<"tz", "truthy">>, <<"data_type", "truthy">>, <<"cat", "truthy">>,
       <<"gprop", "truthy">> >>

Params_youtube ==
    << <<"search_query", "always">>, <<"gl", "truthy">>, <<"hl", "truthy">>,
       <<"sp", "truthy">> >>

\* Scholar: every parameter is added "if ... is not None"
Params_scholar ==
    << <<"q", "notnone">>, <<"hl", "notnone">>, <<"lr", "notnone">>,
       <<"start", "notnone">>, <<"num", "notnone">>, <<"cites", "notnone">>,
       <<"as_ylo", "notnone">>, <<"as_yhi", "notnone">>,
       <<"scisbd", "notnone">>, <<"cluster", "notnone">>,
       <<"as_sdt", "notnone">>, <<"safe", "notnone">>,
       <<"filter", "notnone">>, <<"as_vis", "notnone">>,
       <<"as_rr", "notnone">> >>

\* Google Search: the optional parameters after q and num (time_period is
\* sent as tbs, the domain lists are folded into q)
Params_search ==
    << <<"start", "notnone">>, <<"location", "notnone">>, <<"gl", "notnone">>,
       <<"hl", "notnone">>, <<"device", "notnone">>, <<"safe", "notnone">>,
       <<"filter", "notnone">>, <<"time_period", "notnone">>,
       <<"exactTerms", "notnone">> >>

ParamsOf(ad) ==
    CASE ad = "finance" -> Params_finance
      [] ad = "maps" -> Params_maps
      [] ad = "news" -> Params_news
      [] ad = "images" -> Params_images
      [] ad = "trends" -> Params_trends
      [] ad = "youtube" -> Params_youtube
      [] ad = "scholar" -> Params_scholar
      [] ad = "search" -> Params_search

\* the parameters of the table that the guards let through, in code order
Provided(ad, args) ==
    SelectSeq(ParamsOf(ad), LAMBDA p : Passes(p[2], args[p[1]]))

\* the output mode a request selects: raw_json first, then readable_json
Mode(args) ==
    IF Truthy(args.raw_json) THEN "raw"
    ELSE IF Truthy(args.readable_json) THEN "readable"
    ELSE "clean"

Engine(ad) ==
    CASE ad = "finance" -> "google_finance"
      [] ad = "maps" -> "google_maps"
      [] ad = "news" -> "google_news"
      [] ad = "images" -> "google_images"
      [] ad = "trends" -> "google_trends"
      [] ad = "youtube" -> "youtube"
      [] ad = "search" -> "google"
      [] ad = "scholar" -> "google_scholar"

\* Google Search: q with the include_domains / exclude_domains operators
\* appended
SearchQuery(args) ==
    LET inc == args.include_domains.v
        exc == args.exclude_domains.v
        site_query == Join([i \in 1..Len(inc) |-> "site:" \o inc[i].v], " OR ")
        exclude_query == Join([i \in 1..Len(exc) |-> "-site:" \o exc[i].v], " ")
        q1 == IF inc # <<>> THEN "(" \o args.q.v \o ") " \o site_query
              ELSE args.q.v
    IN  IF exc # <<>> THEN q1 \o " " \o exclude_query ELSE q1

\* the name and value a provided Google Search parameter is sent under
SearchParam(p, args) ==
    IF p[1] = "time_period" THEN <<"tbs", JStr("qdr:" \o Str(args.time_period))>>
    ELSE <<p[1], args[p[1]]>>

\* the query parameters sent upstream (the params dict), as a JSON map in
\* insertion order; key is the server's API key
UpstreamParams(ad, key, args) ==
    LET given == Provided(ad, args)
        opt == [i \in 1..Len(given) |-> <<given[i][1], args[given[i][1]]>>]
    IN  CASE ad = "search" ->
               JMap(<< <<"engine", JStr(Engine(ad))>>, <<"api_key", JStr(key)>>,
                       <<"q", JStr(SearchQuery(args))>>, <<"num", args.num>> >>
                    \o [i \in 1..Len(given) |-> SearchParam(given[i], args)])
          [] ad = "youtube" ->
               JMap(<< <<"engine", JStr(Engine(ad))>>, Head(opt),
                       <<"api_key", JStr(key)>> >> \o Tail(opt))
          [] OTHER ->
               JMap(<< <<"engine", JStr(Engine(ad))>>, <<"api_key", JStr(key)>> >>
                    \o opt)

\* the keys of a params dict in sorted order (json.dumps(..., sort_keys=True))
SortedNames_search ==
    << "api_key", "device", "engine", "exactTerms", "filter", "gl", "hl",
       "location", "num", "q", "safe", "start", "tbs" >>

SortedNames_scholar ==
    << "api_key", "as_rr", "as_sdt", "as_vis", "as_yhi", "as_ylo", "cites",
       "cluster", "engine", "filter", "hl", "lr", "num", "q", "safe", "scisbd",
       "start" >>

\* json.dumps of a scalar
DumpScalar(x) ==
    CASE x.t = "null" -> "null"
      [] x.t = "str" -> "\"" \o x.v \o "\""
      [] x.t = "num" -> ToString(x.v)
      [] x.t = "bool" -> IF x.v THEN "true" ELSE "false"

\* json.dumps(params, sort_keys=True) of a flat dict whose keys are among names
JsonDumpsSorted(params, names) ==
    LET present == SelectSeq(names, LAMBDA n : HasKey(params, n))
    IN  "{" \o Join([i \in 1..Len(present) |->
                       "\"" \o present[i] \o "\": " \o DumpScalar(Get(params, present[i]))],
                    ", ") \o "}"

\* the "format=..." part that ends the cache key
FormatTag(args) ==
    IF Truthy(args.raw_json) THEN "format=raw_json"
    ELSE IF Truthy(args.readable_json) THEN "format=readable_json"
    ELSE "format=clean_json"

\* Finance, Maps, News, Images, Trends, YouTube: "name=value" parts joined
\* by "&", the format part last
KeyFromParts(ad, args) ==
    LET given == Provided(ad, args)
        cache_key_parts ==
            [i \in 1..Len(given) |-> given[i][1] \o "=" \o Str(args[given[i][1]])]
            \o <<FormatTag(args)>>
    IN  Join(cache_key_parts, "&")

\* Google Search: the dumped params (API key included) plus a format suffix
KeyOfSearch(key, args) ==
    JsonDumpsSorted(UpstreamParams("search", key, args), SortedNames_search)
    \o (IF Truthy(args.raw_json) THEN "_raw"
        ELSE IF Truthy(args.readable_json) THEN "_readable"
        ELSE "_clean")

\* Scholar: the dumped params (API key included), no format part
KeyOfScholar(key, args) ==
    JsonDumpsSorted(UpstreamParams("scholar", key, args), SortedNames_scholar)

\* the cache key of an HTTP adapter's search method
cache_key(ad, key, args) ==
    CASE ad = "search" -> KeyOfSearch(key, args)
      [] ad = "scholar" -> KeyOfScholar(key, args)
      [] OTHER -> KeyFromParts(ad, args)

(***************************************************************************)
(* YouTube transcript: video URLs and the cache key.  A URL is kept as     *)
(* what the code reads of it: its length, whether it holds "/" or ".",     *)
(* and urlparse's hostname ("" for None), path segments and v= values.     *)
(***************************************************************************)
VideoId == "dQw4w9WgXcQ"

Url(text, len, slash, dot, hostname, path, v) ==
    [text |-> text, len |-> len, slash |-> slash, dot |-> dot,
     hostname |-> hostname, path |-> path, v |-> v]

UrlBare == Url(VideoId, 11, FALSE, FALSE, "", <<VideoId>>, <<>>)
UrlShort == Url("https://youtu.be/" \o VideoId, 28, TRUE, TRUE,
                "youtu.be", <<VideoId>>, <<>>)
UrlWatch == Url("https://www.youtube.com/watch?v=" \o VideoId \o "&t=5", 47, TRUE, TRUE,
                "www.youtube.com", <<"watch">>, <<VideoId>>)
UrlOther == Url("https://example.com/video", 25, TRUE, TRUE,
                "example.com", <<"video">>, <<>>)

UrlV == Url("https://www.youtube.com/v/" \o VideoId, 37, TRUE, TRUE,
            "www.youtube.com", <<"v", VideoId>>, <<>>)
UrlShorts == Url("https://www.youtube.com/shorts/" \o VideoId, 42, TRUE, TRUE,
                 "www.youtube.com", <<"shorts", VideoId>>, <<>>)
UrlEmbed == Url("https://www.youtube.com/embed/" \o VideoId, 41, TRUE, TRUE,
                "www.youtube.com", <<"embed", VideoId>>, <<>>)

\* a watch URL without v=, and a word that is no URL and no 11-character id
UrlWatchNoV == Url("https://www.youtube.com/watch", 29, TRUE, TRUE,
                   "www.youtube.com", <<"watch">>, <<>>)
UrlWord == Url("hello", 5, FALSE, FALSE, "", <<"hello">>, <<>>)

\* the bare id of another video
UrlBare2 == Url("9bZkp7q19f0", 11, FALSE, FALSE, "", <<"9bZkp7q19f0">>, <<>>)

\* extract_video_id that forgets to strip the /v/, /shorts/ or /embed/ prefix
extract_video_id_keeps_prefix(url) ==
    IF url.len <= 11 /\ ~url.slash /\ ~url.dot THEN [ok |-> TRUE, id |-> url.text]
    ELSE IF url.hostname \in {"youtu.be", "www.youtu.be"}
        THEN [ok |-> TRUE, id |-> Join(url.path, "/")]
    ELSE IF url.hostname \in {"youtube.com", "www.youtube.com"}
              /\ url.path = <<"watch">> /\ url.v # <<>>
        THEN [ok |-> TRUE, id |-> url.v[1]]
    ELSE IF url.hostname \in {"youtube.com", "www.youtube.com"}
              /\ Len(url.path) >= 2 /\ url.path[1] \in {"v", "shorts", "embed"}
        THEN [ok |-> TRUE, id |-> Join(url.path, "/")]
    ELSE [ok |-> FALSE, exc |-> "ValueError",
          msg |-> "Could not extract video ID from URL"]

\* extract_video_id: [ok, id] or the exception it raises
extract_video_id(url) ==
    IF url.len <= 11 /\ ~url.slash /\ ~url.dot THEN [ok |-> TRUE, id |-> url.text]
    ELSE IF url.hostname \in {"youtu.be", "www.youtu.be"}
        THEN [ok |-> TRUE, id |-> Join(url.path, "/")]
    ELSE IF url.hostname \in {"youtube.com", "www.youtube.com"}
              /\ url.path = <<"watch">>
        THEN IF url.v # <<>> THEN [ok |-> TRUE, id |-> url.v[1]]
             ELSE [ok |-> FALSE, exc |-> "KeyError", msg |-> "'v'"]
    ELSE IF url.hostname \in {"youtube.com", "www.youtube.com"}
              /\ Len(url.path) >= 2 /\ url.path[1] \in {"v", "shorts", "embed"}
        THEN [ok |-> TRUE, id |-> Join(Tail(url.path), "/")]
    ELSE [ok |-> FALSE, exc |-> "ValueError",
          msg |-> "Could not extract video ID from URL"]

\* what get_transcript asks the transcript library: the transcripts of
\* video_id through proxies with cookies, and of these the one in language
TranscriptQuery(video_id, args) ==
    [video_id |-> video_id,
     proxies |-> IF Truthy(args.proxy) THEN JMap(<< <<"https", args.proxy>> >>) ELSE None,
     cookies |-> args.cookies_path,
     language |-> args.language]

\* get_transcript's cache key
TranscriptKey(video_id, args) ==
    Join(<<video_id, Str(args.language), Str(args.with_timestamps),
           Str(args.preserve_formatting), Str(args.raw_json),
           Str(args.readable_json), Str(args.text_transcript)>>, "_")

(***************************************************************************)
(* The requests studied: each adapter's default request and its            *)
(* variations.                                                             *)
(***************************************************************************)
F == JBool(FALSE)
T == JBool(TRUE)

BaseArgs(ad) ==
    CASE ad = "finance" ->
           [q |-> JStr("AAPL"), hl |-> None, window |-> None,
            raw_json |-> F, readable_json |-> F]
      [] ad = "maps" ->
           [q |-> JStr("cafe"), type |-> JStr("search"), data |-> None,
            place_id |-> None, ll |-> None, google_domain |-> None,
            hl |-> None, gl |-> None, start |-> None,
            raw_json |-> F, readable_json |-> F]
      [] ad = "news" ->
           [q |-> JStr("tla"), gl |-> None, hl |-> None,
            publication_token |-> None, topic_token |-> None,
            story_token |-> None, section_token |-> None, so |-> None,
            raw_json |-> F, readable_json |-> F]
      [] ad = "images" ->
           [q |-> JStr("cat"), location |-> None, uule |-> None,
            google_domain |-> None, gl |-> None, hl |-> None, cr |-> None,
            device |-> None, ijn |-> None, chips |-> None, tbs |-> None,
            imgar |-> None, imgsz |-> None, image_color |-> None,
            image_type |-> None, licenses |-> None, safe |-> None,
            nfpr |-> None, filter |-> None, time_period |-> None,
            raw_json |-> F, readable_json |-> F]
      [] ad = "trends" ->
           [q |-> JStr("coffee"), geo |-> None, date |-> None, tz |-> None,
            data_type |-> None, cat |-> None, gprop |-> None,
            raw_json |-> F, readable_json |-> F]
      [] ad = "youtube" ->
           [search_query |-> JStr("tla"), gl |-> None, hl |-> None, sp |-> None,
            raw_json |-> F, readable_json |-> F]
      [] ad = "search" ->
           [q |-> JStr("tla"), num |-> JNum(10), start |-> None,
            location |-> None, gl |-> None, hl |-> None, device |-> None,
            safe |-> None, filter |-> None, time_period |-> None,
            exactTerms |-> None, include_domains |-> JList(<<>>),
            exclude_domains |-> JList(<<>>),
            raw_json |-> F, readable_json |-> F]
      [] ad = "scholar" ->
           [q |-> JStr("tla"), hl |-> None, lr |-> None, start |-> None,
            num |-> None, cites |-> None, as_ylo |-> None, as_yhi |-> None,
            scisbd |-> None, cluster |-> None, as_sdt |-> None, safe |-> None,
            filter |-> None, as_vis |-> None, as_rr |-> None,
            raw_json |-> F, readable_json |-> F]
      [] ad = "transcript" ->
           [video_url |-> UrlBare, with_timestamps |-> F, language |-> JStr("en"),
            preserve_formatting |-> F, cookies_path |-> None, proxy |-> None,
            raw_json |-> F, readable_json |-> F, text_transcript |-> F]

\* the four settings of the two output flags
WithFlags(args) ==
    { [args EXCEPT !.raw_json = r, !.readable_json = d] : r \in {F, T}, d \in {F, T} }

(***************************************************************************)
(* What the upstream service can answer.                                   *)
(***************************************************************************)
\* a result document every response model accepts; its "extra" member is
\* unknown to the models and holds a null
DocOK ==
    JMap(<< <<"search_metadata", JMap(<< <<"status", JStr("Success")>> >>)>>,
            <<"search_parameters", JMap(<< <<"q", JStr("a")>> >>)>>,
            <<"organic_results", JList(<<>>)>>,
            <<"extra", JMap(<< <<"note", JNull>> >>)>> >>)

\* a result document without search_parameters, which no response model
\* accepts
DocBad ==
    JMap(<< <<"search_metadata", JMap(<< <<"status", JStr("OK")>> >>)>>,
            <<"stock_info", JMap(<< <<"price", JNum(150)>>, <<"exchange", JStr("")>> >>)>>,
            <<"markets", JNull>> >>)

\* an HTTP 200 document that reports an error
DocErr ==
    JMap(<< <<"search_metadata", JMap(<< <<"status", JStr("Error")>> >>)>>,
            <<"search_parameters", JMap(<< <<"q", JStr("a")>> >>)>>,
            <<"error", JStr("Invalid API key")>> >>)

Ok200(doc) == [kind |-> "http", status |-> 200, body |-> doc]
Status500 ==
    [kind |-> "http", status |-> 500, text |-> "{\"error\": \"boom\"}",
     json |-> JMap(<< <<"error", JStr("boom")>> >>)]
TimedOut == [kind |-> "timeout", str |-> ""]
ClientError == [kind |-> "client_error", str |-> "Cannot connect to host"]

HttpOutcomes == {Ok200(DocOK), Ok200(DocBad), Ok200(DocErr), Status500, TimedOut, ClientError}

(***************************************************************************)
(* The response models (pydantic) and the markdown formatters.  A payload  *)
(* is a JSON document, or a str holding markdown.                          *)
(***************************************************************************)
\* a model attribute: the member of the document, None when absent
Field(doc, k) == IF HasKey(doc, k) THEN Get(doc, k) ELSE JNull

\* Google Search's GoogleSearchResult
IsSearchResult(x) ==
    IsMap(x) /\ \A k \in {"position", "title", "link", "displayed_link"} : HasKey(x, k)

\* whether XResponseData(**doc) validates
Coercible(ad, doc) ==
    /\ IsMap(doc)
    /\ HasKey(doc, "search_metadata") /\ IsMap(Get(doc, "search_metadata"))
    /\ HasKey(doc, "search_parameters") /\ IsMap(Get(doc, "search_parameters"))
    /\ Field(doc, "error").t \in {"null", "str"}
    /\ ad = "search" =>
          /\ HasKey(doc, "organic_results") /\ IsList(Get(doc, "organic_results"))
          /\ \A i \in 1..Len(Get(doc, "organic_results").v) :
                 IsSearchResult(Get(doc, "organic_results").v[i])
    /\ ad = "scholar" => Field(doc, "organic_results").t \in {"null", "list"}

\* str(e) of the pydantic ValidationError (its first line)
ValidationErrorText(ad) == "1 validation error for " \o Engine(ad) \o " response data"

\* the "- **key**: value" lines of a search_parameters section
RECURSIVE ParamLines(_, _, _, _)
ParamLines(pairs, hidden, before, after) ==
    IF pairs = <<>> THEN ""
    ELSE (IF pairs[1][1] \in hidden THEN ""
          ELSE before \o pairs[1][1] \o after \o Str(pairs[1][2]) \o "\n")
         \o ParamLines(Tail(pairs), hidden, before, after)

\* the "Search Information" block of Google Search and of YouTube search
SearchInformationLines(heading, before, r) ==
    LET si == Field(r, "search_information")
    IN  IF Truthy(si)
        THEN <<heading>>
             \o (IF HasKey(si, "total_results")
                 THEN <<before \o "Total Results: " \o Str(Get(si, "total_results"))>>
                 ELSE <<>>)
             \o (IF heading = "# Search Information" /\ HasKey(si, "time_taken_displayed")
                 THEN <<"Time Taken: " \o Str(Get(si, "time_taken_displayed"))>>
                 ELSE <<>>)
             \o <<"">>
        ELSE <<>>

\* the title of a news result: its own, else the one of its highlight
NewsTitle(result) ==
    LET title == Field(result, "title")
        highlight == Field(result, "highlight")
    IN  IF title.t = "null" /\ Truthy(highlight) /\ HasKey(highlight, "title")
        THEN Get(highlight, "title")
        ELSE title

\* the "News Results" items; the results studied carry a title at most
RECURSIVE NewsResultLines(_, _)
NewsResultLines(results, i) ==
    IF i > Len(results) THEN <<>>
    ELSE << IF Truthy(NewsTitle(results[i]))
            THEN ToString(i) \o ". **" \o Str(NewsTitle(results[i])) \o "**"
            ELSE ToString(i) \o ". **[No title available]**",
            "" >>
         \o NewsResultLines(results, i + 1)

\* format_google_news_results
format_google_news_results(r) ==
    LET title == Field(r, "title")
        news_results == Field(r, "news_results")
        error == Field(r, "error")
    IN  Join((IF Truthy(title) THEN <<"# " \o title.v, "">> ELSE <<>>)
             \o (IF Truthy(news_results)
                 THEN <<"## News Results", "">> \o NewsResultLines(news_results.v, 1)
                 ELSE IF Truthy(error) THEN <<"## Error", error.v, "">>
                 ELSE <<"## No News Results Found", "">>),
             "\n")

\* format_google_scholar_results: its parts end in "\n" and are joined by ""
format_google_scholar_results(r) ==
    LET si == Field(r, "search_information")
    IN  "# Google Scholar Search Results\n"
        \o (IF Truthy(si) /\ Truthy(Field(si, "total_results"))
            THEN "**Total Results:** " \o Str(Get(si, "total_results")) \o "\n"
            ELSE "")
        \o (IF Truthy(si) /\ Truthy(Field(si, "time_taken_displayed"))
            THEN "**Time Taken:** " \o Str(Get(si, "time_taken_displayed")) \o "\n"
            ELSE "")
        \o "\n## Search Parameters\n"
        \o ParamLines(Get(r, "search_parameters").v, {"engine", "api_key"}, "**", ":** ")

\* format_*_results of a validated document.  Of the result sections, the
\* documents studied hold search_information, title and news_results at
\* most, so only these, the error section, the headings and the search
\* parameters produce text.
format_results(ad, r) ==
    LET error == Field(r, "error")
        sp == Get(r, "search_parameters")
    IN  CASE ad \in {"finance", "maps"} ->
               IF Truthy(error) THEN "# Error\n" \o error.v \o "\n" ELSE ""
          [] ad = "news" -> format_google_news_results(r)
          [] ad \in {"images", "trends"} ->
               (IF ad = "images" THEN "# Google Images Results" ELSE "# Google Trends Results")
               \o (IF Truthy(error) THEN "\n## Error\n" \o error.v \o "\n"
                   ELSE IF Truthy(sp)
                        THEN "\n## Search Parameters\n"
                             \o ParamLines(sp.v, {"api_key"}, "- **", "**: ")
                        ELSE "")
          [] ad = "youtube" ->
               Join(SearchInformationLines("Search Information:", "  ", r), "\n")
          [] ad = "search" ->
               Join(SearchInformationLines("# Search Information", "", r)
                    \o (IF Truthy(error) THEN <<"# Error", error.v, "">> ELSE <<>>),
                    "\n")
          [] ad = "scholar" -> format_google_scholar_results(r)

\* the minimal document the adapters build for a failure
error_response(params, message) ==
    JMap(<< <<"search_metadata", JMap(<< <<"status", JStr("Error")>> >>)>>,
            <<"search_parameters", params>>,
            <<"error", JStr(message)>> >>)

\* a document in the mode the request selects; the document validates
Formatted(ad, args, doc) ==
    IF Truthy(args.raw_json) THEN doc
    ELSE IF Truthy(args.readable_json) THEN JStr(format_results(ad, doc))
    ELSE clean_json_dict(ad, doc)

(***************************************************************************)
(* The part of a search method that runs after the upstream answer: what   *)
(* it hands back (ret), and whether it stores that in the cache (put).     *)
(***************************************************************************)
Returned(payload) == [ret |-> payload, put |-> TRUE]
Uncached(payload) == [ret |-> payload, put |-> FALSE]

\* an exception leaving the method
Raised(exc, message) == [t |-> "raised", exc |-> exc, v |-> message]

\* raise McpError(ErrorData(code=..., message=...)); str() of it is the message
McpError(code, message) ==
    [t |-> "raised", exc |-> "McpError", code |-> code, v |-> message]

\* the message of the "except asyncio.TimeoutError" handler, where there is
\* one; News and YouTube have none and the timeout reaches "except Exception"
TimeoutMessage(ad) ==
    IF ad \in {"finance", "maps", "images", "trends"} THEN "SerpAPI request timed out"
    ELSE "An error occurred: "

\* the message of the "except Exception as e" handler
ExceptionMessage(ad, str_e) ==
    IF ad \in {"images", "trends"} THEN "SerpAPI error: " \o str_e
    ELSE "An error occurred: " \o str_e

\* the message for a non-200 status
StatusMessage(ad, o) ==
    IF ad \in {"finance", "maps", "news"}
    THEN "SerpAPI returned status code " \o ToString(o.status) \o ": " \o o.text
    ELSE "SerpAPI error: " \o Str(Get(o.json, "error"))

\* Images and Trends look for an "error" member in an HTTP 200 document
DetectsError(ad) == ad \in {"images", "trends"}

\* Finance, Maps, News, Images, Trends, YouTube: every failure becomes an
\* error document in the requested mode, which is cached.  (News also adds
\* title/link to the members of news_results; the documents studied have
\* none.)
Respond_caught(ad, key, args, o) ==
    LET params == UpstreamParams(ad, key, args)
        Err(message) == Returned(Formatted(ad, args, error_response(params, message)))
    IN  IF o.kind = "timeout" THEN Err(TimeoutMessage(ad))
        ELSE IF o.kind = "client_error" THEN Err(ExceptionMessage(ad, o.str))
        ELSE IF o.status # 200 THEN Err(StatusMessage(ad, o))
        ELSE IF Truthy(args.raw_json) THEN Returned(o.body)
        ELSE IF DetectsError(ad) /\ HasKey(o.body, "error")
            THEN Err("SerpAPI error: " \o Str(Get(o.body, "error")))
        ELSE IF Truthy(args.readable_json)
            THEN IF Coercible(ad, o.body)
                 THEN Returned(JStr(format_results(ad, o.body)))
                 ELSE Err(ExceptionMessage(ad, ValidationErrorText(ad)))
        ELSE Returned(clean_json_dict(ad, o.body))

\* Google Search and Scholar: every failure is raised as McpError; the
\* McpError raised inside the try block is caught by its own
\* "except Exception" and raised again
Unexpected(str_e) ==
    [ret |-> McpError("INTERNAL_ERROR", "Unexpected error during SerpAPI request: " \o str_e),
     put |-> FALSE]

Respond_raising(ad, args, o) ==
    IF o.kind = "timeout" THEN Unexpected(o.str)
    ELSE IF o.kind = "client_error"
        THEN [ret |-> McpError("INTERNAL_ERROR", "HTTP error during SerpAPI request: " \o o.str),
              put |-> FALSE]
    ELSE IF o.status # 200
        THEN Unexpected("SerpAPI returned an error: " \o ToString(o.status) \o " - " \o o.text)
    ELSE IF HasKey(o.body, "error")
        THEN Unexpected("SerpAPI returned an error: " \o Str(Get(o.body, "error")))
    ELSE IF Truthy(args.raw_json) THEN Returned(o.body)
    ELSE IF Truthy(args.readable_json)
        THEN IF Coercible(ad, o.body) THEN Returned(JStr(format_results(ad, o.body)))
             ELSE IF ad = "search" THEN Returned(o.body)
             ELSE Unexpected(ValidationErrorText(ad))
    ELSE Returned(clean_json_dict(ad, o.body))

Respond(ad, key, args, o) ==
    IF ad \in {"search", "scholar"} THEN Respond_raising(ad, args, o)
    ELSE Respond_caught(ad, key, args, o)

\* Scholar's cache hit: the stored payload is converted again to the mode of
\* this request
ScholarHit(args, cached_response) ==
    IF Truthy(args.raw_json) THEN cached_response
    ELSE IF Truthy(args.readable_json)
        THEN IF IsStr(cached_response) THEN cached_response
             ELSE IF Coercible("scholar", cached_response)
                  THEN JStr(format_results("scholar", cached_response))
                  ELSE Raised("ValidationError", ValidationErrorText("scholar"))
    ELSE IF IsMap(cached_response) THEN clean_json_dict_scholar(cached_response)
         ELSE cached_response

(***************************************************************************)
(* YouTube transcript: what the transcript library can answer, and the     *)
(* rest of get_transcript.                                                 *)
(***************************************************************************)
Entry(text, start, duration) ==
    JMap(<< <<"text", JStr(text)>>, <<"start", JNum(start)>>,
            <<"duration", JNum(duration)>> >>)

\* a transcript whose second entry has no text
TData == JList(<< Entry("hello", 0, 2), Entry("", 75, 1) >>)

Fetched(data) == [kind |-> "fetched", data |-> data]
NoTranscripts == [kind |-> "no_transcript"]
TranscriptsDisabled == [kind |-> "disabled"]
VideoUnavailable == [kind |-> "unavailable"]
OtherError == [kind |-> "error", str |-> "Connection reset"]

TranscriptOutcomes ==
    {Fetched(TData), NoTranscripts, TranscriptsDisabled, VideoUnavailable, OtherError}

Pad2(n) == IF n < 10 THEN "0" \o ToString(n) ELSE ToString(n)

format_timestamp(seconds) ==
    LET hours == seconds \div 3600
        minutes == (seconds % 3600) \div 60
        secs == seconds % 60
    IN  IF hours > 0
        THEN "[" \o ToString(hours) \o ":" \o Pad2(minutes) \o ":" \o Pad2(secs) \o "]"
        ELSE "[" \o ToString(minutes) \o ":" \o Pad2(secs) \o "]"

format_transcript_with_timestamps(data) ==
    Join([i \in 1..Len(data.v) |->
            format_timestamp(Get(data.v[i], "start").v) \o " " \o Get(data.v[i], "text").v],
         "\n")

format_transcript_without_timestamps(data) ==
    Join([i \in 1..Len(data.v) |-> Get(data.v[i], "text").v], "\n")

\* get_transcript after the library answered; failures are returned as
\* strings and not cached
Respond_transcript(args, video_id, o) ==
    IF o.kind = "no_transcript"
        THEN Uncached(JStr("No transcript found for video " \o video_id))
    ELSE IF o.kind = "disabled"
        THEN Uncached(JStr("Error: Transcripts are disabled for this video"))
    ELSE IF o.kind = "unavailable"
        THEN Uncached(JStr("Error: Video " \o args.video_url.text \o " is unavailable"))
    ELSE IF o.kind = "error" THEN Uncached(JStr("Error: " \o o.str))
    ELSE IF Truthy(args.raw_json) THEN Returned(o.data)
    ELSE IF Truthy(args.readable_json)
        THEN IF Truthy(args.with_timestamps)
             THEN Returned(JStr(format_transcript_with_timestamps(o.data)))
             ELSE Returned(JStr(format_transcript_without_timestamps(o.data)))
    ELSE IF Truthy(args.text_transcript)
        THEN Returned(JStr(Join([i \in 1..Len(o.data.v) |-> Get(o.data.v[i], "text").v], " ")))
    ELSE Returned(clean_json_dict_youtube(o.data))

\* whether the upstream attempt failed
IsFailure(o) ==
    IF o.kind = "http" THEN o.status # 200 \/ HasKey(o.body, "error")
    ELSE o.kind # "fetched"

Outcomes(ad) == IF ad = "transcript" THEN TranscriptOutcomes ELSE HttpOutcomes

(***************************************************************************)
(* call_tool builds the argument model from the arguments dict it is       *)
(* handed.  A field validator runs only for a field that is                *)
(* passed, and sees in info.data only the fields declared before its own.  *)
(***************************************************************************)
\* the arguments dicts that yield args: every argument with a value is
\* passed, and q may also be passed as null
Arguments(args) ==
    LET passed == { f \in DOMAIN args : args[f] # None }
    IN  {passed} \cup (IF "q" \in DOMAIN args THEN {passed \cup {"q"}} ELSE {})

\* the message of the ValueError a field validator raises for the
\* arguments passed, "" when none does
validation_error(ad, passed, args) ==
    CASE ad = "images" ->
           \* location is declared before uule: only uule's run sees both
           IF "uule" \in passed /\ args.uule # None /\ args.location # None
           THEN "location and uule parameters can't be used together"
           ELSE ""
      [] ad = "maps" ->
           \* q is the first field: its validator never sees type or place_id;
           \* data's validator sees type but not place_id
           IF "data" \in passed /\ args.type = JStr("place") /\ args.data = None
           THEN "Parameter 'data' is required when type is 'place' and place_id is not provided"
           ELSE ""
      [] ad = "news" ->
           \* q is the first field: its validator sees no token
           IF "q" \in passed /\ args.q = None
           THEN "Either 'q' or at least one token parameter must be provided"
           ELSE IF \E f \in {"topic_token", "story_token"} :
                      f \in passed /\ args[f] # None /\ args.q # None
           THEN "a token cannot be used together with 'q'"
           ELSE ""
      [] ad = "search" ->
           IF "start" \in passed /\ args.start # None /\ args.start.v + args.num.v > 100
           THEN "The sum of 'start' and 'num' cannot exceed 100. The API will not return more than 100 results total."
           ELSE ""
      [] OTHER -> ""

\* requests at the edge of each adapter's cross-field constraint
ConstraintRequests(ad) ==
    CASE ad = "images" ->
           {[BaseArgs(ad) EXCEPT !.location = JStr("Austin"), !.uule = JStr("w+CAIQICI")]}
      [] ad = "maps" -> {[BaseArgs(ad) EXCEPT !.q = None]}
      [] ad = "news" -> {[BaseArgs(ad) EXCEPT !.q = None]}
      [] ad = "search" -> {[BaseArgs(ad) EXCEPT !.start = JNum(95)]}
      [] OTHER -> {}

(***************************************************************************)
(* The adapter as a state machine: tool calls start, wait for the upstream *)
(* answer, and finish; time passes.                                        *)
(***************************************************************************)
cache_ttl == 3600

MaxCalls == 2     \* upstream calls per behaviour
MaxTicks == 2     \* clock advances per behaviour
TickStep == cache_ttl \div 2

ApiKeys == {"sk-live-1", "sk-live-2"}

\* the tool calls that can be in flight together; a call that has to wait
\* takes the first free slot
Slots == {"t1", "t2"}

Idle == [state |-> "idle"]

FreeSlot == IF tasks["t1"] = Idle THEN "t1" ELSE "t2"

\* the requests issued to adapter ad
Requests(ad) ==
    WithFlags(BaseArgs(ad))
    \cup (IF ad = "transcript"
          THEN {[BaseArgs(ad) EXCEPT !.video_url = UrlOther],
                [BaseArgs(ad) EXCEPT !.video_url = UrlWatch],
                [BaseArgs(ad) EXCEPT !.text_transcript = T]}
          ELSE {})

NoOutcome == [kind |-> "none"]

\* A waiting call is "fresh" while no other call has returned since it
\* started; a return makes the waiting calls stale.
Stale(ts) ==
    [s \in Slots |-> IF ts[s] = Idle THEN Idle ELSE [ts[s] EXCEPT !.fresh = FALSE]]

\* before any call has finished
NoReturn ==
    [src |-> "none", args |-> <<>>, key |-> "", ret |-> JNull,
     outcome |-> NoOutcome, started |-> 0, at |-> 0, age |-> 0, fresh |-> TRUE]

\* a lookup that compares the entry's age with cache_ttl in every adapter
ChecksTtl_everywhere(ad) == ad \in Adapters

\* the adapters whose cache lookup compares the entry's age with cache_ttl
ChecksTtl(ad) == ad \notin {"search", "scholar", "transcript"}

\* "cache_key in self.cache" and, where the code has it,
\* "now - cached.timestamp < self.cache_ttl"
IsHit(ad, key) ==
    /\ key \in DOMAIN cache
    /\ ChecksTtl(ad) => now - cache[key].timestamp < cache_ttl

\* self.cache[cache_key] = CachedSearch(cache_key, response).  The entry
\* also remembers the upstream answer it was made from, and (for Scholar
\* and the transcript adapter, whose entries carry no timestamp) the time
\* it was stored.
Store(key, response, o) ==
    [k \in DOMAIN cache \cup {key} |->
        IF k = key THEN [response |-> response, timestamp |-> now, origin |-> o]
        ELSE cache[k]]

\* the cache key the search method computes for args on a server whose API
\* key is key; for the transcript adapter the video id has been extracted
KeyAt(ad, key, args) ==
    IF ad = "transcript"
    THEN TranscriptKey(extract_video_id(args.video_url).id, args)
    ELSE cache_key(ad, key, args)

\* the cache key of a request on this server
KeyOf(ad, args) == KeyAt(ad, api_key, args)

\* a tool call that ends before the cache is looked at: get_transcript
\* with a URL that extract_video_id refuses returns "Error: ..." at once;
\* in the other adapters, arguments that a field validator refuses make
\* construction of the argument model raise in call_tool
Rejection(args) ==
    IF adapter = "transcript"
    THEN IF extract_video_id(args.video_url).ok THEN {}
         ELSE {JStr("Error: " \o extract_video_id(args.video_url).msg)}
    ELSE { Raised("ValidationError", validation_error(adapter, passed, args)) :
             passed \in { p \in Arguments(args) : validation_error(adapter, p, args) # "" } }

\* the arguments reach the search method
Accepted(args) ==
    IF adapter = "transcript" THEN extract_video_id(args.video_url).ok
    ELSE \E passed \in Arguments(args) : validation_error(adapter, passed, args) = ""

Reject(args) ==
    /\ \E r \in Rejection(args) :
          last' = [src |-> "rejected", args |-> args, key |-> "", ret |-> r,
                   outcome |-> NoOutcome, started |-> now, at |-> now, age |-> 0,
                   fresh |-> TRUE]
    /\ tasks' = Stale(tasks)
    /\ UNCHANGED <<adapter, api_key, cache, now, calls, probe>>

\* a tool name no adapter implements
OtherTool == "no_such_tool"

\* call_tool's branch for a name it does not know: McpError with
\* METHOD_NOT_FOUND, which the transcript adapter's own "except Exception"
\* catches and returns as text
unknown_tool(ad, name) ==
    IF ad = "transcript" THEN JStr("Error: " \o "Tool '" \o name \o "' not found")
    ELSE McpError("METHOD_NOT_FOUND", "Unknown tool: " \o name)

\* a tool call under a name the adapter does not implement
UnknownTool ==
    /\ last' = [src |-> "unknown_tool", args |-> <<>>, key |-> "",
                ret |-> unknown_tool(adapter, OtherTool),
                outcome |-> NoOutcome, started |-> now, at |-> now, age |-> 0,
                fresh |-> TRUE]
    /\ tasks' = Stale(tasks)
    /\ UNCHANGED <<adapter, api_key, cache, now, calls, probe>>

\* a cache hit that stamps the entry with the time of the hit
Hit_refreshing(args) ==
    /\ Accepted(args)
    /\ LET key == KeyOf(adapter, args)
       IN  /\ IsHit(adapter, key)
           /\ last' = [src |-> "cache", args |-> args, key |-> key,
                       ret |-> IF adapter = "scholar"
                               THEN ScholarHit(args, cache[key].response)
                               ELSE cache[key].response,
                       outcome |-> cache[key].origin, started |-> now, at |-> now,
                       age |-> now - cache[key].timestamp, fresh |-> TRUE]
           /\ cache' = [cache EXCEPT ![key].timestamp = now]
    /\ tasks' = Stale(tasks)
    /\ UNCHANGED <<adapter, api_key, now, calls, probe>>

\* a search method from its entry to the cache hit's return
Hit(args) ==
    /\ Accepted(args)
    /\ LET key == KeyOf(adapter, args)
       IN  /\ IsHit(adapter, key)
           /\ last' = [src |-> "cache", args |-> args, key |-> key,
                       ret |-> IF adapter = "scholar"
                               THEN ScholarHit(args, cache[key].response)
                               ELSE cache[key].response,
                       outcome |-> cache[key].origin, started |-> now, at |-> now,
                       age |-> now - cache[key].timestamp, fresh |-> TRUE]
    /\ tasks' = Stale(tasks)
    /\ UNCHANGED <<adapter, api_key, cache, now, calls, probe>>

\* a search method from its entry to the await of the upstream call
Miss(s, args) ==
    /\ s = FreeSlot
    /\ tasks[s] = Idle
    /\ calls < MaxCalls
    /\ Accepted(args)
    /\ LET key == KeyOf(adapter, args)
       IN  /\ ~IsHit(adapter, key)
           /\ tasks' = [tasks EXCEPT ![s] =
                           [state |-> "waiting", args |-> args, key |-> key,
                            started |-> now, fresh |-> TRUE]]
    /\ calls' = calls + 1
    /\ UNCHANGED <<adapter, api_key, cache, now, last, probe>>

\* a search method from the upstream answer o to its return or raise
Complete(s, o) ==
    /\ tasks[s] # Idle
    /\ LET args == tasks[s].args
           key == tasks[s].key
           r == IF adapter = "transcript"
                THEN Respond_transcript(args, extract_video_id(args.video_url).id, o)
                ELSE Respond(adapter, api_key, args, o)
       IN  /\ cache' = IF r.put THEN Store(key, r.ret, o) ELSE cache
           /\ last' = [src |-> "upstream", args |-> args, key |-> key,
                       ret |-> r.ret, outcome |-> o, started |-> tasks[s].started,
                       at |-> now, age |-> 0, fresh |-> tasks[s].fresh]
    /\ tasks' = [Stale(tasks) EXCEPT ![s] = Idle]
    /\ UNCHANGED <<adapter, api_key, now, calls, probe>>

\* time passes
Tick ==
    /\ now < MaxTicks * TickStep
    /\ now' = now + TickStep
    /\ UNCHANGED <<adapter, api_key, cache, tasks, calls, last, probe>>

Init ==
    /\ adapter \in Adapters
    /\ api_key = "sk-live-1"
    /\ cache = <<>>
    /\ now = 0
    /\ tasks = [s \in Slots |-> Idle]
    /\ calls = 0
    /\ last = NoReturn
    /\ probe = [stage |-> "off"]

Next ==
    \/ \E args \in Requests(adapter) : Reject(args)
    \/ \E args \in Requests(adapter) : Hit(args)
    \/ \E s \in Slots, args \in Requests(adapter) : Miss(s, args)
    \/ \E s \in Slots, o \in Outcomes(adapter) : Complete(s, o)
    \/ Tick

Spec == Init /\ [][Next]_vars

(***************************************************************************)
(* The adapter under tool calls that should not reach the search method:   *)
(* unknown tool names, and arguments at the edge of the adapter's          *)
(* constraints, next to the default request.                               *)
(***************************************************************************)
ToolRequests(ad) ==
    {BaseArgs(ad)} \cup ConstraintRequests(ad)
    \cup (IF ad = "transcript"
          THEN { [BaseArgs(ad) EXCEPT !.video_url = u] :
                   u \in {UrlShort, UrlWatch, UrlV, UrlShorts, UrlEmbed,
                          UrlOther, UrlWatchNoV, UrlWord} }
          ELSE {})

NextTool ==
    \/ UnknownTool
    \/ \E args \in ToolRequests(adapter) : Reject(args)
    \/ \E args \in ToolRequests(adapter) : Hit(args)
    \/ \E s \in Slots, args \in ToolRequests(adapter) : Miss(s, args)
    \/ \E s \in Slots, o \in Outcomes(adapter) : Complete(s, o)
    \/ Tick

SpecTool == Init /\ [][NextTool]_vars

(***************************************************************************)
(* clean_json_dict as a pure function: an adapter is handed a JSON value   *)
(* and cleans it.                                                          *)
(***************************************************************************)
MaxDepth == 2     \* nesting depth of the JSON values cleaned

Scalars == {JNull, JStr(""), JStr("s"), JNum(0), JBool(FALSE)}

\* the JSON values nested at most d deep
RECURSIVE Values(_)
Values(d) ==
    IF d = 0 THEN Scalars \cup {JList(<<>>), JMap(<<>>)}
    ELSE Values(0)
         \cup { JList(<<v>>) : v \in Values(d - 1) }
         \cup { JList(<<JStr("s"), v>>) : v \in Values(d - 1) }
         \cup { JMap(<< <<"a", v>> >>) : v \in Values(d - 1) }
         \cup { JMap(<< <<"a", v>>, <<"b", JNum(0)>> >>) : v \in Values(d - 1) }

InitClean ==
    /\ adapter \in Adapters
    /\ api_key = "sk-live-1"
    /\ cache = <<>>
    /\ now = 0
    /\ tasks = [s \in Slots |-> Idle]
    /\ calls = 0
    /\ last = NoReturn
    /\ probe \in { [stage |-> "input", input |-> v] : v \in Values(MaxDepth) }

\* the adapter's clean_json_dict is applied to the input
Clean ==
    /\ probe.stage = "input"
    /\ probe' = [stage |-> "cleaned", input |-> probe.input,
                 output |-> clean_json_dict(adapter, probe.input)]
    /\ UNCHANGED <<adapter, api_key, cache, now, tasks, calls, last>>

NextClean == Clean

SpecClean == InitClean /\ [][NextClean]_vars

\* no map key of x maps to null, "", [] or {}, at any depth
RECURSIVE NoEmptyValues(_)
NoEmptyValues(x) ==
    IF x.t = "map"
    THEN \A i \in 1..Len(x.v) : NotEmpty(x.v[i][2]) /\ NoEmptyValues(x.v[i][2])
    ELSE IF x.t = "list" THEN \A i \in 1..Len(x.v) : NoEmptyValues(x.v[i])
    ELSE TRUE

\* C3: in every adapter, the output of clean_json_dict holds no map key
\* whose value is null, "", [] or {} at any nesting depth, also when a map
\* or list became empty only through the cleaning of its children.
C3_CleanOutputHasNoEmptyValues ==
    probe.stage = "cleaned" => NoEmptyValues(probe.output)

(***************************************************************************)
(* The cache key as a pure function: two requests a and b reach two        *)
(* servers of the same adapter (the second with API key other_key), and    *)
(* each computes its key.                                                  *)
(***************************************************************************)
\* one argument of the default request changed
Vary(ad, name, values) == { [BaseArgs(ad) EXCEPT ![name] = v] : v \in values }

Words == {JStr("x"), JStr("y")}
Numbers == {JNum(0), JNum(5)}

\* the default request with a q that holds the "&" and "=" of the key's
\* own syntax, followed by the name and a value of the adapter's next
\* optional parameter
SeparatorRequests(ad) ==
    CASE ad = "finance" -> Vary(ad, "q", {JStr("AAPL&hl=x")})
      [] ad = "news" -> Vary(ad, "q", {JStr("tla&gl=x")})
      [] ad = "images" -> Vary(ad, "q", {JStr("cat&hl=x")})
      [] ad = "trends" -> Vary(ad, "q", {JStr("coffee&geo=x")})
      [] ad = "youtube" -> Vary(ad, "search_query", {JStr("tla&gl=x")})
      [] ad = "search" -> Vary(ad, "q", {JStr("tla&hl=x")})
      [] ad = "scholar" -> Vary(ad, "q", {JStr("tla&hl=x")})
      [] OTHER -> {}

\* the requests whose keys are compared: the default request in its four
\* flag settings, and the default request with one argument changed to a
\* value its validators accept
KeyRequests(ad) ==
    WithFlags(BaseArgs(ad)) \cup SeparatorRequests(ad) \cup
    CASE ad = "finance" ->
           Vary(ad, "q", Words) \cup Vary(ad, "hl", Words) \cup Vary(ad, "window", Words)
      [] ad = "maps" ->
           Vary(ad, "q", Words) \cup Vary(ad, "ll", Words) \cup Vary(ad, "hl", Words)
           \cup Vary(ad, "start", Numbers)
      [] ad = "news" ->
           Vary(ad, "q", Words) \cup Vary(ad, "gl", Words) \cup Vary(ad, "so", Words)
      [] ad = "images" ->
           Vary(ad, "q", Words) \cup Vary(ad, "hl", Words) \cup Vary(ad, "ijn", Numbers)
           \cup Vary(ad, "nfpr", Words)
      [] ad = "trends" ->
           Vary(ad, "q", Words) \cup Vary(ad, "geo", Words) \cup Vary(ad, "tz", Numbers)
           \cup Vary(ad, "date", Words)
      [] ad = "youtube" ->
           Vary(ad, "search_query", Words) \cup Vary(ad, "gl", Words)
           \cup Vary(ad, "sp", Words)
      [] ad = "search" ->
           Vary(ad, "q", Words) \cup Vary(ad, "num", {JNum(5)})
           \cup Vary(ad, "start", {JNum(5)}) \cup Vary(ad, "time_period", Words)
           \cup Vary(ad, "include_domains", {JList(<<JStr("x")>>), JList(<<JStr("y")>>)})
      [] ad = "scholar" ->
           Vary(ad, "q", Words) \cup Vary(ad, "hl", Words) \cup Vary(ad, "start", Numbers)
           \cup Vary(ad, "as_ylo", {JNum(1999), JNum(2005)})
      [] ad = "transcript" ->
           Vary(ad, "video_url", {UrlBare2})
           \cup Vary(ad, "language", {JStr("de")})
           \cup Vary(ad, "with_timestamps", {T})
           \cup Vary(ad, "preserve_formatting", {T})
           \cup Vary(ad, "text_transcript", {T})
           \cup Vary(ad, "proxy", {JStr("https://u:p@proxy:8080")})
           \cup Vary(ad, "cookies_path", {JStr("cookies.txt")})

\* the name of the arguments that select the output mode
ModeFlags == {"raw_json", "readable_json"}

\* the arguments in which two requests differ
Differing(a, b) == { f \in DOMAIN a : a[f] # b[f] }

InitKey ==
    /\ adapter \in Adapters
    /\ api_key \in ApiKeys
    /\ cache = <<>>
    /\ now = 0
    /\ tasks = [s \in Slots |-> Idle]
    /\ calls = 0
    /\ last = NoReturn
    /\ probe = [stage |-> "off"]

\* both servers compute the cache key of their request
ComputeKeys(a, b, other_key) ==
    /\ probe.stage = "off"
    /\ probe' = [stage |-> "keys", a |-> a, b |-> b, other_key |-> other_key,
                 key_a |-> KeyAt(adapter, api_key, a),
                 key_b |-> KeyAt(adapter, other_key, b)]
    /\ UNCHANGED <<adapter, api_key, cache, now, tasks, calls, last>>

NextKey ==
    \E a \in KeyRequests(adapter), b \in KeyRequests(adapter), other_key \in ApiKeys :
        ComputeKeys(a, b, other_key)

SpecKey == InitKey /\ [][NextKey]_vars

\* C7: in every adapter, two requests with equal search parameters that
\* differ only in the selected output mode get different cache keys.
C7_ModeChangesKey ==
    (/\ probe.stage = "keys"
     /\ probe.other_key = api_key
     /\ Differing(probe.a, probe.b) \subseteq ModeFlags
     /\ Mode(probe.a) # Mode(probe.b))
    => probe.key_a # probe.key_b

\* C8: in every adapter, two requests with the same output mode that differ
\* in the value of exactly one recognized request parameter get different
\* cache keys.
C8_OneParameterChangesKey ==
    (/\ probe.stage = "keys"
     /\ probe.other_key = api_key
     /\ Mode(probe.a) = Mode(probe.b)
     /\ Cardinality(Differing(probe.a, probe.b) \ ModeFlags) = 1)
    => probe.key_a # probe.key_b

\* C9: in every adapter the API key is not part of the cache key: two
\* servers that differ only in their API key compute the same key for the
\* same request.
C9_KeyWithoutApiKey ==
    (/\ probe.stage = "keys"
     /\ probe.a = probe.b
     /\ probe.other_key # api_key)
    => probe.key_a = probe.key_b

(***************************************************************************)
(* Properties of the adapter's returns.                                    *)
(***************************************************************************)
IsPayload(x) == x.t # "raised"
IsDocument(x) == x.t \in {"map", "list"}

\* the upstream answer carried a result: HTTP 200, or a fetched transcript
IsAnswer(o) == (o.kind = "http" /\ o.status = 200) \/ o.kind = "fetched"

\* the JSON document of such an answer
AnswerOf(o) == IF o.kind = "http" THEN o.body ELSE o.data

\* a call has just returned or raised
Returns == last' # last

\* C1: if a call completes with a successful upstream response and the same
\* operation is called again with identical parameters and output mode less
\* than 3600 s later, the second call returns a payload equal to the first
\* and issues no upstream call.
C1_RepeatWithinTtlIsServedFromCache ==
    [][(/\ Returns
        /\ last.src = "upstream" /\ ~IsFailure(last.outcome)
        /\ last'.args = last.args
        /\ last'.fresh
        /\ last'.started - last.at < cache_ttl)
       => (last'.src = "cache" /\ last'.ret = last.ret)]_vars

\* C2: the payload returned for an upstream result, fresh or from the
\* cache, has the shape of the one mode chosen by the priority
\* raw > readable > clean: a JSON document when raw_json is set (also when
\* readable_json is set too), a markdown string when only readable_json is
\* set, a JSON document when neither is set.
C2_PayloadShapeFollowsMode ==
    (/\ last.src \in {"upstream", "cache"}
     /\ IsAnswer(last.outcome)
     /\ IsPayload(last.ret)
     /\ adapter = "transcript" => ~Truthy(last.args.text_transcript))
    => IF Mode(last.args) = "readable" THEN IsStr(last.ret)
       ELSE IsDocument(last.ret)

\* C4: when the upstream attempt of a request fails, the formatted error
\* payload is stored in the cache under the request's key, so that an
\* identical request within the TTL is served that payload from the cache.
C4_FailureIsCached ==
    [][(Returns /\ last'.src = "upstream" /\ IsFailure(last'.outcome))
       => (/\ last'.key \in DOMAIN cache'
           /\ cache'[last'.key].response = last'.ret
           /\ cache'[last'.key].timestamp = now')]_vars

\* C5: in every adapter other than the transcript and Scholar adapters, a
\* cache lookup returns the stored payload only while
\* now - createdAt < 3600 s.
C5_HitOnlyWithinTtl ==
    (last.src = "cache" /\ adapter \notin {"transcript", "scholar"})
    => last.age < cache_ttl

\* C6: every transport failure and every upstream logical error met by a
\* search operation becomes a returned payload in the requested mode (JSON
\* with an error key, or markdown); no exception leaves the operation.
C6_FailureBecomesPayload ==
    (last.src = "upstream" /\ IsFailure(last.outcome))
    => /\ IsPayload(last.ret)
       /\ IF Mode(last.args) = "readable" THEN IsStr(last.ret)
          ELSE HasKey(last.ret, "error")

\* C10: in raw mode the payload returned for an upstream response is that
\* response unchanged, its error member included.
C10_RawIsUpstreamUnchanged ==
    (/\ last.src \in {"upstream", "cache"}
     /\ Mode(last.args) = "raw"
     /\ IsAnswer(last.outcome))
    => last.ret = AnswerOf(last.outcome)

(***************************************************************************)
(* The Finance scenario: q = "AAPL" in clean mode, answered with a         *)
(* document that holds an empty exchange and a null markets.               *)
(***************************************************************************)
FinanceScenario ==
    /\ adapter = "finance"
    /\ last.src = "upstream"
    /\ last.args = BaseArgs("finance")
    /\ last.outcome = Ok200(DocBad)

FinanceScenarioResult ==
    JMap(<< <<"search_metadata", JMap(<< <<"status", JStr("OK")>> >>)>>,
            <<"stock_info", JMap(<< <<"price", JNum(150)>> >>)>> >>)

\* C11: a Finance request with q = "AAPL" in clean mode, answered HTTP 200
\* with {"search_metadata":{"status":"OK"},"stock_info":{"price":150.0,
\* "exchange":""},"markets":null}, returns exactly
\* {"search_metadata":{"status":"OK"},"stock_info":{"price":150.0}}.
C11_FinanceCleanScenario ==
    FinanceScenario => last.ret = FinanceScenarioResult

C11_Witness ==
    FinanceScenario /\ last.ret = FinanceScenarioResult /\ calls = 1

(***************************************************************************)
(* The readable-mode formatter as a pure function: an adapter is handed a  *)
(* validated response that carries an error, with or without other         *)
(* members, and renders it.                                                *)
(***************************************************************************)
ErrorMessages == {"X", "Invalid API key"}

\* the members a failed response may carry besides the error
OtherMembers ==
    << <<"search_information", JMap(<< <<"total_results", JNum(5)>> >>)>>,
       <<"title", JStr("Top stories")>>,
       <<"news_results", JList(<< JMap(<< <<"title", JStr("t")>> >>) >>)>> >>

\* responses with an error that adapter ad's response model accepts
ErrorResponses(ad) ==
    { JMap(error_response(JMap(<< <<"q", JStr("a")>> >>), m).v
           \o (IF ad = "search" THEN << <<"organic_results", JList(<<>>)>> >> ELSE <<>>)
           \o SelectSeq(OtherMembers, LAMBDA p : p[1] \in present)) :
        m \in ErrorMessages, present \in SUBSET {"search_information", "title", "news_results"} }

InitFormat ==
    /\ adapter \in Adapters \ {"transcript"}
    /\ api_key = "sk-live-1"
    /\ cache = <<>>
    /\ now = 0
    /\ tasks = [s \in Slots |-> Idle]
    /\ calls = 0
    /\ last = NoReturn
    /\ probe \in { [stage |-> "response", response |-> r] : r \in ErrorResponses(adapter) }

\* the adapter's formatter renders the response
Format ==
    /\ probe.stage = "response"
    /\ Coercible(adapter, probe.response)
    /\ probe' = [stage |-> "formatted", response |-> probe.response,
                 text |-> format_results(adapter, probe.response)]
    /\ UNCHANGED <<adapter, api_key, cache, now, tasks, calls, last>>

NextFormat == Format

SpecFormat == InitFormat /\ [][NextFormat]_vars

\* a document that is one "Error" section holding the message
ErrorSections(message) ==
    { "# Error\n" \o message \o "\n", "## Error\n" \o message \o "\n" }

\* C12: in every adapter's readable-mode formatter, a result with a
\* non-null error is rendered as a single "Error" section containing only
\* the error message, whatever other members the result carries.
C12_ErrorRendersAsSingleSection ==
    (probe.stage = "formatted" /\ Field(probe.response, "error").t # "null")
    => probe.text \in ErrorSections(Get(probe.response, "error").v)

(***************************************************************************)
(* Upstream errors in clean mode.                                          *)
(***************************************************************************)
\* the last return answers an HTTP 200 body that holds an error member
AnswersErrorBody ==
    /\ last.src = "upstream"
    /\ last.outcome.kind = "http"
    /\ last.outcome.status = 200
    /\ HasKey(last.outcome.body, "error")

\* C13: when the upstream answers HTTP 200 with a body holding
\* {"error": "X"}, a clean-mode request returns a JSON document whose error
\* value is exactly "X" and whose only other top-level members are
\* search_metadata and search_parameters.
C13_CleanModeErrorPassthrough ==
    (AnswersErrorBody /\ Mode(last.args) = "clean")
    => /\ IsMap(last.ret)
       /\ HasKey(last.ret, "error")
       /\ Get(last.ret, "error") = Get(last.outcome.body, "error")
       /\ \A i \in 1..Len(last.ret.v) :
              last.ret.v[i][1] \in {"error", "search_metadata", "search_parameters"}

\* C14: when a readable-mode request receives an HTTP 200 body that cannot
\* be coerced into the adapter's response model, the search operation
\* still returns a payload and raises no exception to its caller.
C14_UncoercibleBodyStillReturnsPayload ==
    (/\ last.src = "upstream"
     /\ adapter # "transcript"
     /\ Mode(last.args) = "readable"
     /\ last.outcome.kind = "http"
     /\ last.outcome.status = 200
     /\ ~Coercible(adapter, last.outcome.body))
    => IsPayload(last.ret)

(***************************************************************************)
(* Two calls with the same cache key in flight together.                   *)
(***************************************************************************)
\* call s is waiting, and a call with the same key has been in flight with
\* it: either that call is still waiting, or it was the last one to return
\* and did so after s started.
Overlapped(s) ==
    /\ tasks[s] # Idle
    /\ \/ \E u \in Slots \ {s} : tasks[u] # Idle /\ tasks[u].key = tasks[s].key
       \/ ~tasks[s].fresh /\ last.src = "upstream" /\ last.key = tasks[s].key

\* C15: there is no single-flight de-duplication: two requests with the
\* same cache key that are both started before either has stored its
\* result both miss, both issue an upstream call and both store under that
\* key, so that each store leaves its own result as the entry (the last
\* write wins).
C15_BothStoreLastWriteWins ==
    [][\A s \in Slots :
          (Overlapped(s) /\ tasks'[s] = Idle)
          => /\ tasks[s].key \in DOMAIN cache'
             /\ cache'[tasks[s].key].response = last'.ret
             /\ cache'[tasks[s].key].origin = last'.outcome]_vars

(***************************************************************************)
(* Arguments that break an adapter's constraint.                           *)
(***************************************************************************)
\* Images: location and uule both set; Maps: type "search" with neither q
\* nor place_id; News: neither q nor any token; Search: start + num > 100
BreaksConstraint(ad, args) ==
    CASE ad = "images" -> args.location # None /\ args.uule # None
      [] ad = "maps" ->
           args.type = JStr("search") /\ args.q = None /\ args.place_id = None
      [] ad = "news" ->
           \A f \in {"q", "publication_token", "topic_token", "story_token",
                     "section_token"} : args[f] = None
      [] ad = "search" -> args.start # None /\ args.start.v + args.num.v > 100
      [] OTHER -> FALSE

\* C16: a tool call whose arguments violate its adapter's constraint is
\* rejected before any upstream call is issued and before any cache entry
\* is written: no such call waits for the upstream service, and none ends
\* in a result from the upstream service or from the cache.
C16_ConstraintViolationIsRejected ==
    /\ \A s \in Slots : tasks[s] # Idle => ~BreaksConstraint(adapter, tasks[s].args)
    /\ last.src \in {"upstream", "cache"} => ~BreaksConstraint(adapter, last.args)

\* C17: in every adapter, a tool call naming an operation the adapter does
\* not implement ends in a method-not-found rejection, distinct from a
\* text payload and from upstream errors, and it issues no upstream call
\* and leaves the cache untouched.
C17_UnknownToolIsMethodNotFound ==
    [][(Returns /\ last'.src = "unknown_tool")
       => /\ last'.ret.t = "raised"
          /\ last'.ret.exc = "McpError"
          /\ last'.ret.code = "METHOD_NOT_FOUND"
          /\ calls' = calls
          /\ cache' = cache]_vars

(***************************************************************************)
(* Video URLs of the transcript adapter.                                   *)
(***************************************************************************)
\* the recognized shapes: a bare 11-character id, youtu.be/<id>,
\* youtube.com/watch?v=<id>, /v/<id>, /shorts/<id>, /embed/<id>
RecognizedUrls == {UrlBare, UrlBare2, UrlShort, UrlWatch, UrlV, UrlShorts, UrlEmbed}

\* C18: in the transcript adapter, a video_url of none of the recognized
\* shapes makes get_transcript return a user-facing error string without
\* raising, without any transcript fetch and without writing the cache.
C18_UnrecognizedUrlIsRefused ==
    adapter = "transcript"
    => /\ \A s \in Slots :
              tasks[s] # Idle => tasks[s].args.video_url \in RecognizedUrls
       /\ (last.src \in {"upstream", "cache", "rejected"}
           /\ last.args.video_url \notin RecognizedUrls)
          => (last.src = "rejected" /\ IsStr(last.ret))

\* C19: extract_video_id returns exactly <id> for a bare 11-character id,
\* https://youtu.be/<id>, https://www.youtube.com/watch?v=<id> (also with
\* further query parameters), https://www.youtube.com/v/<id>,
\* https://www.youtube.com/shorts/<id> and https://www.youtube.com/embed/<id>:
\* a call with such a URL goes to the transcript library under the key of
\* that id.
C19_RecognizedShapesYieldId ==
    adapter = "transcript"
    => \A s \in Slots :
          (tasks[s] # Idle /\ tasks[s].args.video_url \in RecognizedUrls)
          => /\ extract_video_id(tasks[s].args.video_url) = [ok |-> TRUE, id |-> VideoId]
             /\ tasks[s].key = TranscriptKey(VideoId, tasks[s].args)

C19_Witness ==
    /\ adapter = "transcript"
    /\ tasks["t1"] # Idle /\ tasks["t1"].args.video_url = UrlShorts
    /\ tasks["t1"].key = TranscriptKey(VideoId, tasks["t1"].args)
    /\ tasks["t2"] # Idle /\ tasks["t2"].args.video_url = UrlWatch
    /\ tasks["t2"].key = tasks["t1"].key

(***************************************************************************)
(* What clean mode may remove.                                             *)
(***************************************************************************)
\* out holds, in input order, every non-null element of the list x and
\* every entry of the map x whose value is not null, "", [] or {}, each
\* cleaned in the same way; of the map's other entries it may hold some,
\* and it holds nothing else
RECURSIVE Preserves(_, _)
Preserves(x, out) ==
    IF x.t = "list"
    THEN LET kept == SelectSeq(x.v, LAMBDA e : e.t # "null")
         IN  /\ out.t = "list"
             /\ Len(out.v) = Len(kept)
             /\ \A i \in 1..Len(kept) : Preserves(kept[i], out.v[i])
    ELSE IF x.t = "map"
    THEN LET kept == SelectSeq(x.v, LAMBDA p :
                        \/ p[2] \notin {JNull, JStr(""), JList(<<>>), JMap(<<>>)}
                        \/ HasKey(out, p[1]))
         IN  /\ out.t = "map"
             /\ Len(out.v) = Len(kept)
             /\ \A i \in 1..Len(kept) :
                    out.v[i][1] = kept[i][1] /\ Preserves(kept[i][2], out.v[i][2])
    ELSE out = x

\* C20: clean mode removes from a list only its null elements and from a
\* map only the entries whose value is null, "", [] or {}: every other
\* element and entry, the falsy scalars 0 and false included, appears in
\* input order in the output of an upstream document, and the output holds
\* no other key.
C20_CleanRemovesOnlyNullAndEmpty ==
    (probe.stage = "cleaned" /\ IsMap(probe.input))
    => Preserves(probe.input, probe.output)

(***************************************************************************)
(* Timeouts of the upstream call.                                          *)
(***************************************************************************)
\* the last return answers an upstream call that timed out
AnswersTimeout ==
    /\ adapter # "transcript"
    /\ last.src = "upstream"
    /\ last.outcome.kind = "timeout"

\* the text by which the adapters name a timeout
TimeoutText == "SerpAPI request timed out"

\* C21: in every HTTP adapter, an upstream call that times out yields an
\* error result whose message identifies a timeout and differs from the
\* message produced for any other transport exception (the message of the
\* general exception handler, whatever the text of the exception).
C21_TimeoutIsDistinguished ==
    (AnswersTimeout /\ Mode(last.args) # "readable")
    => /\ IsPayload(last.ret)
       /\ HasKey(last.ret, "error")
       /\ Get(last.ret, "error").v = TimeoutText
       /\ Get(last.ret, "error").v # ExceptionMessage(adapter, ClientError.str)

(***************************************************************************)
(* Caches without expiry.                                                  *)
(***************************************************************************)
\* C22: in the transcript adapter and the Scholar adapter a cached entry
\* never expires: once a result is stored under a key, every later request
\* that maps to that key is served from the cache with no upstream call,
\* however much time has passed.  Every stored entry passes the lookup at
\* any later time, and a call waiting for the upstream service found no
\* entry under its key when it started.
C22_EntriesNeverExpire ==
    adapter \in {"transcript", "scholar"}
    => /\ \A k \in DOMAIN cache : IsHit(adapter, k)
       /\ \A s \in Slots :
              (tasks[s] # Idle /\ tasks[s].key \in DOMAIN cache)
              => cache[tasks[s].key].timestamp >= tasks[s].started
       /\ last.src = "cache" => last.key \in DOMAIN cache

C22_Witness ==
    /\ adapter \in {"transcript", "scholar"}
    /\ last.src = "cache"
    /\ last.age >= cache_ttl
    /\ IsPayload(last.ret)
    /\ calls = 1

(***************************************************************************)
(* The variant a cache entry holds.                                        *)
(***************************************************************************)
\* the payload has the shape of the mode: a markdown string for readable,
\* a JSON document for raw and clean
HasShapeOf(mode, payload) ==
    IF mode = "readable" THEN IsStr(payload) ELSE IsDocument(payload)

\* C23: in every adapter and in every reachable state, each cache entry's
\* payload is of the variant named by the format tag of its key: whenever
\* the key of a request is in the cache, the entry holds a JSON document if
\* the request selects raw or clean mode, and a markdown string if it
\* selects readable mode.
C23_EntryVariantFollowsKey ==
    \A args \in Requests(adapter) :
        (/\ Accepted(args)
         /\ KeyOf(adapter, args) \in DOMAIN cache
         /\ adapter = "transcript" => ~Truthy(args.text_transcript))
        => HasShapeOf(Mode(args), cache[KeyOf(adapter, args)].response)

(***************************************************************************)
(* What a cache hit changes.                                               *)
(***************************************************************************)
\* C24: a cache hit leaves the cache unchanged: it neither rewrites the
\* entry nor refreshes its timestamp, so in the adapters whose lookup is
\* bound by the TTL an entry is served only while less than 3600 s have
\* passed since it was stored, regardless of how many hits it received in
\* between.
C24_HitLeavesCacheUnchanged ==
    [][(Returns /\ last'.src = "cache")
       => /\ cache' = cache
          /\ ChecksTtl(adapter) => now' - cache'[last'.key].timestamp < cache_ttl]_vars

\* an entry was hit after it was stored, and at 3600 s of age a request for
\* its key goes to the upstream service
C24_Witness ==
    /\ ChecksTtl(adapter)
    /\ last.src = "cache"
    /\ last.key \in DOMAIN cache
    /\ last.at > cache[last.key].timestamp
    /\ \E s \in Slots :
          /\ tasks[s] # Idle
          /\ tasks[s].key = last.key
          /\ tasks[s].started - cache[last.key].timestamp >= cache_ttl

(***************************************************************************)
(* serve(): the process from its start.  Finance, Maps and News run their  *)
(* search method once, and Google Search asks for the account, before the  *)
(* handlers are registered; an exception there ends the process.  Then     *)
(* tool calls are served.  probe holds the position of serve().            *)
(***************************************************************************)
TestsKey(ad) == ad \in {"finance", "maps", "news", "search"}

\* the arguments of the startup request: q = "AAPL" for Finance, "test"
\* for Maps and News
test_args(ad) ==
    [BaseArgs(ad) EXCEPT !.q = JStr(IF ad = "finance" THEN "AAPL" ELSE "test")]

\* the upstream refuses the API key with HTTP 401
Status401 ==
    [kind |-> "http", status |-> 401, text |-> "{\"error\": \"Invalid API key\"}",
     json |-> JMap(<< <<"error", JStr("Invalid API key")>> >>)]

StartupOutcomes == {Ok200(DocOK), Ok200(DocErr), Status401, TimedOut}

\* the upstream answer says that the API key is refused
KeyRejected(o) == o \in {Ok200(DocErr), Status401}

\* Google Search's locations() and account(): the JSON data, or McpError;
\* what is "locations" or "account"
endpoint_call(what, o) ==
    LET Err(message) == McpError("INTERNAL_ERROR", "SerpAPI " \o what \o message)
    IN  IF o.kind = "timeout" THEN Err(" request timed out")
        ELSE IF o.kind = "client_error" THEN Err(" error: " \o o.str)
        ELSE IF o.status # 200 THEN Err(" error: " \o Str(Get(o.json, "error")))
        ELSE IF IsMap(o.body) /\ HasKey(o.body, "error")
            THEN Err(" error: " \o Str(Get(o.body, "error")))
        ELSE o.body

InitServe ==
    /\ adapter \in Adapters
    /\ api_key = "sk-live-1"
    /\ cache = <<>>
    /\ now = 0
    /\ tasks = [s \in Slots |-> Idle]
    /\ calls = 0
    /\ last = NoReturn
    /\ probe = [stage |-> "starting"]

\* serve() up to the registration of the handlers, the upstream answering
\* the startup request with o
Startup(o) ==
    /\ probe.stage = "starting"
    /\ TestsKey(adapter)
    /\ calls' = calls + 1
    /\ IF adapter = "search"
       THEN /\ probe' = [stage |-> IF IsPayload(endpoint_call("account", o))
                                   THEN "serving" ELSE "exited",
                         test |-> o]
            /\ cache' = cache
       ELSE LET r == Respond_caught(adapter, api_key, test_args(adapter), o)
            IN  /\ probe' = [stage |-> IF IsPayload(r.ret) THEN "serving" ELSE "exited",
                             test |-> o]
                /\ cache' = IF r.put
                            THEN Store(KeyOf(adapter, test_args(adapter)), r.ret, o)
                            ELSE cache
    /\ UNCHANGED <<adapter, api_key, now, tasks, last>>

\* serve() of the adapters that make no startup request
StartServing ==
    /\ probe.stage = "starting"
    /\ ~TestsKey(adapter)
    /\ probe' = [stage |-> "serving", test |-> NoOutcome]
    /\ UNCHANGED <<adapter, api_key, cache, now, tasks, calls, last>>

Serving == probe.stage = "serving"

\* the tool calls served: the default request and the startup request
ServeRequests(ad) ==
    {BaseArgs(ad)} \cup (IF ad \in {"finance", "maps", "news"} THEN {test_args(ad)} ELSE {})

\* the tool names Google Search's list_tools advertises
list_tools_search == {"google_search", "google_locations", "serpapi_account"}

\* the names Google Search's call_tool compares with, besides
\* "google_search"
OtherNames == {"google_locations", "google_account", "serpapi_account"}

\* what the locations and account endpoints answer
LocationsData == JList(<< JMap(<< <<"name", JStr("Austin")>> >>) >>)
AccountData == JMap(<< <<"plan_name", JStr("Free")>> >>)

EndpointOutcomes ==
    {Ok200(LocationsData), Ok200(AccountData), Ok200(DocErr), Status401, TimedOut,
     ClientError}

\* pydantic's AttributeError for a field the model does not declare
NoAttribute(model, field) ==
    Raised("AttributeError", "'" \o model \o "' object has no attribute '" \o field \o "'")

\* Google Search's call_tool for a name other than "google_search": the
\* branches for "google_locations" and "google_account" call the endpoint
\* and then read args.readable_json, which neither argument model
\* declares; any other name is unknown
call_tool_other(name, o) ==
    IF name = "google_locations"
    THEN IF IsPayload(endpoint_call("locations", o))
         THEN NoAttribute("GoogleLocationsArgs", "readable_json")
         ELSE endpoint_call("locations", o)
    ELSE IF name = "google_account"
    THEN IF IsPayload(endpoint_call("account", o))
         THEN NoAttribute("GoogleAccountArgs", "readable_json")
         ELSE endpoint_call("account", o)
    ELSE McpError("METHOD_NOT_FOUND", "Unknown tool: " \o name)

\* a call of one of these tools with valid arguments (none), from
\* call_tool's entry to its return or raise
CallOther(name, o) ==
    /\ adapter = "search"
    /\ name \in {"google_locations", "google_account"} => calls < MaxCalls
    /\ calls' = IF name \in {"google_locations", "google_account"} THEN calls + 1 ELSE calls
    /\ last' = [src |-> "tool", args |-> [tool |-> name], key |-> "",
                ret |-> call_tool_other(name, o),
                outcome |-> IF name \in {"google_locations", "google_account"}
                            THEN o ELSE NoOutcome,
                started |-> now, at |-> now, age |-> 0, fresh |-> TRUE]
    /\ tasks' = Stale(tasks)
    /\ UNCHANGED <<adapter, api_key, cache, now, probe>>

NextServe ==
    \/ \E o \in StartupOutcomes : Startup(o)
    \/ StartServing
    \/ Serving /\ \E name \in OtherNames, o \in EndpointOutcomes : CallOther(name, o)
    \/ Serving /\ \E args \in ServeRequests(adapter) : Hit(args)
    \/ Serving /\ \E s \in Slots, args \in ServeRequests(adapter) : Miss(s, args)
    \/ Serving /\ \E s \in Slots, o \in Outcomes(adapter) : Complete(s, o)
    \/ Serving /\ Tick

SpecServe == InitServe /\ [][NextServe]_vars

\* C25: in the adapters whose serve() tests API key validity at startup
\* (Finance, Maps, News, Google Search), when the upstream rejects the key
\* during that startup request, serve() exits the process and never starts
\* serving tool calls.
C25_RejectedKeyEndsProcess ==
    (/\ TestsKey(adapter)
     /\ probe.stage # "starting"
     /\ KeyRejected(probe.test))
    => probe.stage = "exited"

(***************************************************************************)
(* The tools Google Search advertises.                                     *)
(***************************************************************************)
\* the upstream answered HTTP 200 with a document that reports no error
Succeeded(o) ==
    o.kind = "http" /\ o.status = 200 /\ ~(IsMap(o.body) /\ HasKey(o.body, "error"))

\* C30: in the Google Search adapter, every tool name advertised by
\* list_tools (google_search, google_locations, serpapi_account) is
\* dispatched by call_tool to its operation: a call with valid arguments
\* never ends in "Unknown tool", and when the upstream call succeeds the
\* handler returns a text payload.
C30_AdvertisedToolsAreDispatched ==
    /\ (adapter = "search" /\ last.src = "tool" /\ last.args.tool \in list_tools_search)
       => /\ last.ret # McpError("METHOD_NOT_FOUND", "Unknown tool: " \o last.args.tool)
          /\ Succeeded(last.outcome) => IsPayload(last.ret)
    /\ (adapter = "search" /\ last.src = "upstream" /\ Succeeded(last.outcome))
       => IsPayload(last.ret)

(***************************************************************************)
(* The API key in what is returned.                                        *)
(***************************************************************************)
\* the JSON value x holds the string secret, at any depth
RECURSIVE Holds(_, _)
Holds(x, secret) ==
    IF x.t = "str" THEN x.v = secret
    ELSE IF x.t = "list" THEN \E i \in 1..Len(x.v) : Holds(x.v[i], secret)
    ELSE IF x.t = "map"
        THEN \E i \in 1..Len(x.v) : x.v[i][1] = secret \/ Holds(x.v[i][2], secret)
    ELSE FALSE

\* C26: no payload returned to a caller contains the server's API key: for
\* every mode (raw, clean, readable) and every upstream outcome, including
\* the synthesized error results that echo search_parameters, the secret
\* is absent from the returned document.
C26_PayloadHoldsNoApiKey ==
    (last.src \in {"upstream", "cache"} /\ IsPayload(last.ret))
    => ~Holds(last.ret, api_key)

(***************************************************************************)
(* The cache key and the upstream query.                                   *)
(***************************************************************************)
\* what a request asks of the upstream service on a server with API key key
UpstreamQuery(ad, key, args) ==
    IF ad = "transcript"
    THEN TranscriptQuery(extract_video_id(args.video_url).id, args)
    ELSE UpstreamParams(ad, key, args)

\* C27: in every adapter, two requests that map to the same cache key send
\* the same upstream query (same parameter names and values), so a cache
\* hit never serves a result that was fetched for a different upstream
\* query.
C27_SameKeySameQuery ==
    (/\ probe.stage = "keys"
     /\ probe.other_key = api_key
     /\ probe.key_a = probe.key_b)
    => UpstreamQuery(adapter, api_key, probe.a) = UpstreamQuery(adapter, api_key, probe.b)

(***************************************************************************)
(* A call that finishes after another call stored a result for its key.    *)
(***************************************************************************)
\* a successful payload is stored under key k and is within the TTL
HoldsSuccess(k) ==
    /\ k \in DOMAIN cache
    /\ ~IsFailure(cache[k].origin)
    /\ now - cache[k].timestamp < cache_ttl

\* C28: under concurrent requests for one key, once a successful
\* (non-error) payload has been stored for that key, every request for
\* that key that completes within the TTL returns that same payload and
\* the cache entry for that key is not replaced by an error payload.
C28_StoredSuccessIsKept ==
    [][\A s \in Slots :
          (tasks[s] # Idle /\ tasks'[s] = Idle /\ HoldsSuccess(tasks[s].key))
          => /\ last'.ret = cache[tasks[s].key].response
             /\ ~IsFailure(cache'[tasks[s].key].origin)]_vars

(***************************************************************************)
(* Cleaning twice.                                                         *)
(***************************************************************************)
\* C29: every clean_json_dict variant is idempotent and does not modify
\* its argument: for every JSON value x, clean(clean(x)) equals clean(x),
\* and x is unchanged after the call.  (The variants build new dicts and
\* lists and assign to nothing they are handed; the input recorded with
\* the output is the value before the call.)
C29_CleanIsIdempotent ==
    probe.stage = "cleaned"
    => clean_json_dict(adapter, probe.output) = probe.output

====
